---------------------------- MODULE Spec2Model ----------------------------
(***************************************************************************)
(* The triage pipeline of the CyberSec daily brief                         *)
(* (src/src/processor.py, ContentProcessor): deduplication by link,        *)
(* region classification, keyword scoring, noise floor, sort, quota-aware  *)
(* selection and the enrichment loop.  Texts are TLA+ strings and keyword  *)
(* matching is Python's substring test (`term in text_lower`).             *)
(*                                                                         *)
(* Spec        process() on a batch, one loop iteration per step, with the *)
(*             InsightGenerator not enabled (no GOOGLE_API_KEY).           *)
(* SpecScore   _determine_region and _calculate_score on one story, one    *)
(*             block of _calculate_score per step.                         *)
(* SpecEnrich  process() on short batches with an InsightGenerator that    *)
(*             may be enabled; each call of the collaborator raises or     *)
(*             answers, and the calls are logged.                          *)
(* SpecInsight the two parsers of InsightGenerator (src/src/insights.py)   *)
(*             on one answer of the collaborator.                          *)
(* SpecMain    main() (src/src/main.py) around process(): configuration,   *)
(*             collection, the two emptiness tests and send_briefing.      *)
(***************************************************************************)
EXTENDS Integers, Sequences, FiniteSets, TLC

VARIABLES
    pc,                 \* position of process(): "start", "dedup", "score", "sort", "select", "enrich", "insight", "done"
    raw_input,          \* the argument of process(): None or a list of stories
    enabled,            \* InsightGenerator.enabled
    raw_stories,        \* the local raw_stories once None is replaced by []
    unique_stories,     \* dict link -> story, kept as the sequence of its values (insertion order)
    processed_stories,  \* stories that passed the score threshold
    final_selection,    \* the selection being built, then enriched
    academic_count,     \* local counter of process()
    emerging_count,     \* local counter of process()
    cursor,             \* index of the running loop of process()
    report_insights,    \* second component of the value process() returns
    requests,           \* the calls of self.model.generate_content so far: prompt and outcome
    s_pc,               \* position inside _determine_region/_calculate_score for one story
    s_story,            \* the story being classified and scored
    s_region,           \* region returned by _determine_region
    s_score,            \* the local `score` of _calculate_score
    i_pc,               \* which parser of InsightGenerator runs on one response, or "returned"
    i_region,           \* the region argument of analyze_story
    i_outcome,          \* what self.model.generate_content does for the one call
    i_result,           \* the dict the parser returns
    m_pc,               \* position of main(): "validate", "collect", "collected", "process", "processed", "send", "returned", "exit"
    m_config,           \* whether SMTP_USER, SMTP_PASSWORD and RECIPIENT_EMAIL are all set
    m_raw_stories,      \* the local raw_stories of main()
    top_stories,        \* the local top_stories of main(): the value process() returned
    m_log,              \* warnings and critical messages logged by main()
    sent                \* the arguments of the calls of EmailService.send_briefing so far

pipeVars == << pc, raw_input, enabled, raw_stories, unique_stories, processed_stories,
               final_selection, academic_count, emerging_count, cursor, report_insights,
               requests >>

scoreVars == << s_pc, s_story, s_region, s_score >>

insightVars == << i_pc, i_region, i_outcome, i_result >>

mainVars == << m_pc, m_config, m_raw_stories, top_stories, m_log, sent >>

vars == << pipeVars, scoreVars, insightVars, mainVars >>

-----------------------------------------------------------------------------
(* Strings *)

\* Python: term in text
Contains(text, term) ==
    \E i \in 1..(Len(text) - Len(term) + 1) : SubSeq(text, i, i + Len(term) - 1) = term

\* str.lower() on one character
LowerChar(c) ==
    CASE c = "A" -> "a" [] c = "B" -> "b" [] c = "C" -> "c" [] c = "D" -> "d"
      [] c = "E" -> "e" [] c = "F" -> "f" [] c = "G" -> "g" [] c = "H" -> "h"
      [] c = "I" -> "i" [] c = "J" -> "j" [] c = "K" -> "k" [] c = "L" -> "l"
      [] c = "M" -> "m" [] c = "N" -> "n" [] c = "O" -> "o" [] c = "P" -> "p"
      [] c = "Q" -> "q" [] c = "R" -> "r" [] c = "S" -> "s" [] c = "T" -> "t"
      [] c = "U" -> "u" [] c = "V" -> "v" [] c = "W" -> "w" [] c = "X" -> "x"
      [] c = "Y" -> "y" [] c = "Z" -> "z" [] OTHER -> c

\* str.lower() on the characters lo..hi, the range halved at each call
RECURSIVE LowerRange(_, _, _)
LowerRange(text, lo, hi) ==
    IF lo > hi THEN ""
    ELSE IF lo = hi THEN LowerChar(SubSeq(text, lo, lo))
    ELSE LET mid == (lo + hi) \div 2
         IN  LowerRange(text, lo, mid) \o LowerRange(text, mid + 1, hi)

\* Python: text.lower()
Lower(text) == LowerRange(text, 1, Len(text))

-----------------------------------------------------------------------------
(* Keyword tables of ContentProcessor.__init__ *)

impact_keywords ==
    << "exploited in the wild", "active exploitation", "critical vulnerability",
       "zero-day", "cve-", "cvss 9", "cvss 10", "ransomware attack",
       "data breach", "confirmed incident", "patch now", "under attack" >>

priority_topics ==
    << "policy", "regulation", "act", "bill", "sim swap",
       "cyber incident", "compliance", "directive" >>

noise_keywords ==
    << "top 10", "best of", "awards", "ranking", "opinion:", "editorial:",
       "thought leadership", "prediction", "market report", "vendor showcase" >>

politics_keywords == << "politics", "election", "party", "campaign", "vote" >>

tech_context ==
    << "cyber", "tech", "internet", "digital", "audit", "data", "online",
       "social media", "ict" >>

(* Term tables of _determine_region *)

kenya_terms ==
    << "kenya", "nairobi", "cak", "communications authority", "odpc", "ruto",
       "ministry of ict", "ke-cirt", "konza", "safaricom", "airtel kenya" >>

ea_terms ==
    << "uganda", "tanzania", "rwanda", "east africa", "ethiopia", "somalia",
       "burundi", "drc" >>

known_kenya_sources ==
    << "TechWeez", "CIO Africa", "Business Daily (Tech)", "CA Kenya (News)",
       "KE-CIRT (News)", "ODPC Kenya", "Ministry of ICT Kenya" >>

-----------------------------------------------------------------------------
(* _determine_region *)

\* for term in terms: if term in text_lower: return ...   (TRUE when the loop returns)
RECURSIVE LoopFinds(_, _, _)
LoopFinds(terms, text_lower, i) ==
    IF i > Len(terms) THEN FALSE
    ELSE IF Contains(text_lower, terms[i]) THEN TRUE
    ELSE LoopFinds(terms, text_lower, i + 1)

\* story.get('source') in known_kenya_sources
InList(x, list) == \E i \in 1..Len(list) : list[i] = x

\* The source allowlist consulted before the East-Africa terms
_determine_region_source_first(story, text) ==
    LET text_lower == Lower(text) IN
    IF LoopFinds(kenya_terms, text_lower, 1) THEN "Kenya"
    ELSE IF InList(story.source, known_kenya_sources) THEN "Kenya"
    ELSE IF LoopFinds(ea_terms, text_lower, 1) THEN "East Africa"
    ELSE "Global"

_determine_region(story, text) ==
    LET text_lower == Lower(text) IN
    IF LoopFinds(kenya_terms, text_lower, 1) THEN "Kenya"
    ELSE IF LoopFinds(ea_terms, text_lower, 1) THEN "East Africa"
    ELSE IF InList(story.source, known_kenya_sources) THEN "Kenya"
    ELSE "Global"

-----------------------------------------------------------------------------
(* _calculate_score, block by block *)

\* The region weights before they were reduced (Kenya 10, East Africa 5)
RegionScoreOldWeights(score, region) ==
    IF region = "Kenya" THEN score + 10
    ELSE IF region = "East Africa" THEN score + 5
    ELSE score + 0

\* 1. Region Score
RegionScore(score, region) ==
    IF region = "Kenya" THEN score + 5
    ELSE IF region = "East Africa" THEN score + 3
    ELSE score + 0

\* 2. Impact Bonus: for kw in impact_keywords: if kw in text_lower: score += 15; break
RECURSIVE ImpactLoop(_, _, _)
ImpactLoop(score, text_lower, i) ==
    IF i > Len(impact_keywords) THEN score
    ELSE IF Contains(text_lower, impact_keywords[i]) THEN score + 15
    ELSE ImpactLoop(score, text_lower, i + 1)

\* The impact loop without its break
RECURSIVE ImpactLoopNoBreak(_, _, _)
ImpactLoopNoBreak(score, text_lower, i) ==
    IF i > Len(impact_keywords) THEN score
    ELSE ImpactLoopNoBreak(IF Contains(text_lower, impact_keywords[i]) THEN score + 15 ELSE score,
                           text_lower, i + 1)

ImpactBonusNoBreak(score, text_lower) == ImpactLoopNoBreak(score, text_lower, 1)

ImpactBonus(score, text_lower) == ImpactLoop(score, text_lower, 1)

\* 3. Topic Bonus: for pt in priority_topics: if pt in text_lower: score += 5
RECURSIVE TopicLoop(_, _, _)
TopicLoop(score, text_lower, i) ==
    IF i > Len(priority_topics) THEN score
    ELSE TopicLoop(IF Contains(text_lower, priority_topics[i]) THEN score + 5 ELSE score,
                   text_lower, i + 1)

\* The topic loop with the break of the impact loop
RECURSIVE TopicLoopBreak(_, _, _)
TopicLoopBreak(score, text_lower, i) ==
    IF i > Len(priority_topics) THEN score
    ELSE IF Contains(text_lower, priority_topics[i]) THEN score + 5
    ELSE TopicLoopBreak(score, text_lower, i + 1)

TopicBonusCapped(score, text_lower) == TopicLoopBreak(score, text_lower, 1)

TopicBonus(score, text_lower) == TopicLoop(score, text_lower, 1)

\* any(k in text_lower for k in keywords)
AnyKeyword(keywords, text_lower) ==
    \E i \in 1..Len(keywords) : Contains(text_lower, keywords[i])

\* The politics test written as the elif of the noise test
NoisePoliticsFilterElif(score, text_lower) ==
    LET is_political == AnyKeyword(politics_keywords, text_lower)
        has_tech_context == AnyKeyword(tech_context, text_lower)
        is_noise == AnyKeyword(noise_keywords, text_lower)
    IN  IF is_noise THEN score - 50
        ELSE IF is_political /\ ~has_tech_context THEN score - 50
        ELSE score

\* 4. Noise / Politics Filter
NoisePoliticsFilter(score, text_lower) ==
    LET is_political == AnyKeyword(politics_keywords, text_lower)
        has_tech_context == AnyKeyword(tech_context, text_lower)
        is_noise == AnyKeyword(noise_keywords, text_lower)
        after_noise == IF is_noise THEN score - 50 ELSE score
    IN  IF is_political /\ ~has_tech_context THEN after_noise - 50 ELSE after_noise

_calculate_score(story, text, region) ==
    LET text_lower == Lower(text) IN
    NoisePoliticsFilter(
        TopicBonus(ImpactBonus(RegionScore(0, region), text_lower), text_lower),
        text_lower)

\* full_text = story['title'] + " " + story['clean_summary']
FullText(story) == story.title \o " " \o story.clean_summary

-----------------------------------------------------------------------------
(* Classification and scoring of one story, one block of code per step *)

\* Bound on the number of phrases in a generated text
MaxFrags == 3

\* Phrases the generated texts are made of (mixed case, as feeds deliver them)
Vocabulary ==
    << "Nairobi", "Uganda", "Ransomware Attack", "zero-day", "data breach",
       "policy", "Regulation", "sim swap", "impact of the Act", "Top 10", "prediction",
       "election", "Party", "digital", "update" >>

\* The phrases with index in S, in table order, separated by single spaces
RECURSIVE JoinFrom(_, _)
JoinFrom(S, i) ==
    IF i > Len(Vocabulary) THEN ""
    ELSE IF i \in S
         THEN (LET rest == JoinFrom(S, i + 1)
               IN  IF rest = "" THEN Vocabulary[i] ELSE Vocabulary[i] \o " " \o rest)
         ELSE JoinFrom(S, i + 1)

Texts ==
    { JoinFrom(S, 1) : S \in { T \in SUBSET (1..Len(Vocabulary)) : Cardinality(T) <= MaxFrags } }

ScoreSources == { "TechWeez", "Krebs on Security" }

ScoreCategories == { "Regional Focus", "Ethics, Law & Policy in Cybersecurity" }

ScoreInputs ==
    { [title |-> t, clean_summary |-> "", source |-> src, category |-> cat] :
        t \in Texts, src \in ScoreSources, cat \in ScoreCategories }

InsightIdle ==
    /\ i_pc = "idle"
    /\ i_region = "Global"
    /\ i_outcome = [raises |-> FALSE, text |-> ""]
    /\ i_result = << >>

MainIdle ==
    /\ m_pc = "idle"
    /\ m_config = TRUE
    /\ m_raw_stories = << >>
    /\ top_stories = << >>
    /\ m_log = << >>
    /\ sent = << >>

PipeIdle ==
    /\ pc = "idle"
    /\ raw_input = [none |-> TRUE, stories |-> << >>]
    /\ enabled = FALSE
    /\ raw_stories = << >>
    /\ unique_stories = << >>
    /\ processed_stories = << >>
    /\ final_selection = << >>
    /\ academic_count = 0
    /\ emerging_count = 0
    /\ cursor = 0
    /\ report_insights = [executive_summary |-> "", signals |-> << >>]
    /\ requests = << >>

InitScore ==
    /\ PipeIdle
    /\ s_pc = "region"
    /\ s_story \in ScoreInputs
    /\ s_region = "unset"
    /\ s_score = 0
    /\ InsightIdle
    /\ MainIdle

\* region = self._determine_region(story, full_text); then score = 0 on entry to _calculate_score
Classify ==
    /\ s_pc = "region"
    /\ s_region' = _determine_region(s_story, FullText(s_story))
    /\ s_score' = 0
    /\ s_pc' = "region_score"
    /\ UNCHANGED << s_story, pipeVars, insightVars, mainVars >>

ScoreRegion ==
    /\ s_pc = "region_score"
    /\ s_score' = RegionScore(s_score, s_region)
    /\ s_pc' = "impact"
    /\ UNCHANGED << s_story, s_region, pipeVars, insightVars, mainVars >>

ScoreImpact ==
    /\ s_pc = "impact"
    /\ s_score' = ImpactBonus(s_score, Lower(FullText(s_story)))
    /\ s_pc' = "topic"
    /\ UNCHANGED << s_story, s_region, pipeVars, insightVars, mainVars >>

ScoreTopic ==
    /\ s_pc = "topic"
    /\ s_score' = TopicBonus(s_score, Lower(FullText(s_story)))
    /\ s_pc' = "penalty"
    /\ UNCHANGED << s_story, s_region, pipeVars, insightVars, mainVars >>

ScorePenalty ==
    /\ s_pc = "penalty"
    /\ s_score' = NoisePoliticsFilter(s_score, Lower(FullText(s_story)))
    /\ s_pc' = "returned"
    /\ UNCHANGED << s_story, s_region, pipeVars, insightVars, mainVars >>

NextScore == Classify \/ ScoreRegion \/ ScoreImpact \/ ScoreTopic \/ ScorePenalty

SpecScore == InitScore /\ [][NextScore]_vars

-----------------------------------------------------------------------------
(* clean_html: BeautifulSoup(text, "html.parser").get_text(separator=' ').strip() *)
(* for texts without character entities and with every tag closed by ">"         *)

IsLetter(c) ==
    c \in { "a", "b", "c", "d", "e", "f", "g", "h", "i", "j", "k", "l", "m",
            "n", "o", "p", "q", "r", "s", "t", "u", "v", "w", "x", "y", "z" }

IsSpace(c) == c \in { " ", "\n", "\t" }

\* "<" opens a tag when a letter or "/" follows it; otherwise it is text
OpensTag(text, i) ==
    /\ SubSeq(text, i, i) = "<"
    /\ i < Len(text)
    /\ LET d == SubSeq(text, i + 1, i + 1) IN IsLetter(LowerChar(d)) \/ d = "/"

\* The parser reads one character: inside a tag up to its ">", else text of the node
TextStep(text, i, st) ==
    IF st.inTag THEN [st EXCEPT !.inTag = SubSeq(text, i, i) # ">"]
    ELSE IF OpensTag(text, i)
         THEN [inTag |-> TRUE, cur |-> "",
               nodes |-> IF st.cur = "" THEN st.nodes ELSE Append(st.nodes, st.cur)]
    ELSE [st EXCEPT !.cur = st.cur \o SubSeq(text, i, i)]

\* The parser over the characters lo..hi, the range halved at each call; the test on
\* the left half has it evaluated before the right half starts
RECURSIVE TextScan(_, _, _, _)
TextScan(text, lo, hi, st) ==
    IF lo > hi THEN st
    ELSE IF lo = hi THEN TextStep(text, lo, st)
    ELSE LET mid == (lo + hi) \div 2
             left == TextScan(text, lo, mid, st)
         IN  IF left.cur = "" THEN TextScan(text, mid + 1, hi, left)
             ELSE TextScan(text, mid + 1, hi, left)

\* The text nodes of the document, in document order
TextNodes(text) ==
    LET st == TextScan(text, 1, Len(text), [inTag |-> FALSE, cur |-> "", nodes |-> << >>])
    IN  IF st.cur = "" THEN st.nodes ELSE Append(st.nodes, st.cur)

\* separator.join(nodes)
RECURSIVE JoinNodes(_, _, _)
JoinNodes(nodes, separator, i) ==
    IF i > Len(nodes) THEN ""
    ELSE IF i = Len(nodes) THEN nodes[i]
    ELSE nodes[i] \o separator \o JoinNodes(nodes, separator, i + 1)

RECURSIVE LStrip(_)
LStrip(text) ==
    IF text # "" /\ IsSpace(SubSeq(text, 1, 1)) THEN LStrip(SubSeq(text, 2, Len(text)))
    ELSE text

RECURSIVE RStrip(_)
RStrip(text) ==
    IF text # "" /\ IsSpace(SubSeq(text, Len(text), Len(text)))
    THEN RStrip(SubSeq(text, 1, Len(text) - 1))
    ELSE text

\* str.strip()
Strip(text) == RStrip(LStrip(text))

clean_html(text) == Strip(JoinNodes(TextNodes(text), " ", 1))

\* Length above which clean_summary is cut
SummaryLimit == 400

\* Characters kept of a summary that is cut
SummaryKeep == 397

\* A cut that already applies to a text of exactly 400 characters
CleanSummaryCutsAtLimit(summary) ==
    LET clean == clean_html(summary) IN
    IF Len(clean) >= SummaryLimit THEN SubSeq(clean, 1, SummaryKeep) \o "..." ELSE clean

\* story['clean_summary'] = clean_html(summary), cut to 397 characters + "..." above 400
CleanSummary(summary) ==
    LET clean == clean_html(summary) IN
    IF Len(clean) > SummaryLimit THEN SubSeq(clean, 1, SummaryKeep) \o "..." ELSE clean

-----------------------------------------------------------------------------
(* Input batches *)

\* d[k] = v on a Python dict
SetKey(d, k, v) == (k :> v) @@ d

\* d.get(k, default)
Get(d, k, default) == IF k \in DOMAIN d THEN d[k] ELSE default

\* None, where a text is expected (d.get(k) of a missing key)
NoValue == "<None>"

Story(title, link, summary, published, source, category) ==
    [title |-> title, link |-> link, summary |-> summary, published |-> published,
     source |-> source, category |-> category]

Academic == "Academic Research & Papers"

EmergingTech == "Emerging Technologies"

\* The stories batches are drawn from.  The last one shares the link of the eleventh.
Pool ==
    << Story("Ransomware attack hits Kenya bank", "https://t.example/1",
             "<p>Details <b>inside</b></p>", 2, "TechWeez", "Regional Focus"),
       Story("Election ransomware attack in Kenya", "https://t.example/2",
             "", 3, "CIO Africa", "Regional Focus"),
       Story("New paper on zero-day detection", "https://t.example/3",
             "<p>Abstract</p>", 1, "arXiv (Security)", Academic),
       Story("Survey of policy compliance", "https://t.example/4",
             "", 2, "IEEE Spectrum (Cyber)", Academic),
       Story("Quantum policy update", "https://t.example/5",
             "", 1, "Schneier on Security", EmergingTech),
       Story("Digital identity regulation in Uganda", "https://t.example/6",
             "", 2, "Schneier on Security", EmergingTech),
       Story("Zero-day in smart meters", "https://t.example/7",
             " <i>Meters</i> ", 2, "Dark Reading (Risk)", EmergingTech),
       Story("Top 10 CVE- policy regulation bill compliance directive", "https://t.example/8",
             "", 3, "Dark Reading (Risk)", "Sector-Specific Security"),
       Story("Patch now: critical vulnerability", "https://t.example/9",
             "", 3, "Exploit-DB", "Vulnerabilities & Exploit Analysis"),
       Story("Weekly update", "https://t.example/10",
             "", 1, "TechWeez", "Regional Focus"),
       Story("Vendor update", "https://t.example/11",
             "", 2, "Threatpost", "Emerging Threats & Attack Patterns"),
       Story("Phishing kit update", "https://t.example/12",
             "", 2, "BleepingComputer", "Emerging Threats & Attack Patterns"),
       Story("Botnet takedown", "https://t.example/13",
             "", 1, "Packet Storm", "Vulnerabilities & Exploit Analysis"),
       Story("Vendor update: data breach confirmed", "https://t.example/11",
             "<p>Revised</p>", 3, "Threatpost", "Emerging Threats & Attack Patterns") >>

\* Pool stories the short batches are made of
ShortPool == { 1, 2, 3, 4, 8, 11, 14 }

\* Bound on the length of the batches that take stories in any order
MaxShort == 3

\* Bound on the number of stories left out of the batches that take the whole pool
MaxDrop == 1

Reverse(seq) == [i \in 1..Len(seq) |-> seq[Len(seq) + 1 - i]]

\* seq without the elements at the indexes in D
RECURSIVE Without(_, _, _)
Without(seq, D, i) ==
    IF i > Len(seq) THEN << >>
    ELSE IF i \in D THEN Without(seq, D, i + 1)
    ELSE << seq[i] >> \o Without(seq, D, i + 1)

\* Every sequence of at most MaxShort stories of the short pool, repetitions included
ShortBatches ==
    UNION { { [i \in 1..n |-> Pool[f[i]]] : f \in [1..n -> ShortPool] } : n \in 0..MaxShort }

\* The pool, in its order and in the opposite order, with at most MaxDrop stories left out
LongBatches ==
    UNION { { Without(Pool, D, 1), Without(Reverse(Pool), D, 1) } :
            D \in { E \in SUBSET (1..Len(Pool)) : Cardinality(E) <= MaxDrop } }

Batches == ShortBatches \cup LongBatches

ProcessInputs ==
    { [none |-> TRUE, stories |-> << >>] } \cup { [none |-> FALSE, stories |-> b] : b \in Batches }

-----------------------------------------------------------------------------
(* ContentProcessor.process *)

ScoreIdle ==
    /\ s_pc = "idle"
    /\ s_story = Story("", "", "", 0, "", "")
    /\ s_region = "unset"
    /\ s_score = 0

Init ==
    /\ pc = "start"
    /\ raw_input \in ProcessInputs
    /\ enabled = FALSE
    /\ raw_stories = << >>
    /\ unique_stories = << >>
    /\ processed_stories = << >>
    /\ final_selection = << >>
    /\ academic_count = 0
    /\ emerging_count = 0
    /\ cursor = 0
    /\ report_insights = [executive_summary |-> "", signals |-> << >>]
    /\ requests = << >>
    /\ ScoreIdle
    /\ InsightIdle
    /\ MainIdle

\* if not raw_stories: raw_stories = []
Begin ==
    /\ pc = "start"
    /\ raw_stories' = IF raw_input.none \/ raw_input.stories = << >> THEN << >>
                      ELSE raw_input.stories
    /\ unique_stories' = << >>
    /\ cursor' = 1
    /\ pc' = "dedup"
    /\ UNCHANGED << raw_input, enabled, processed_stories, final_selection,
                    academic_count, emerging_count, report_insights, requests,
                    scoreVars, insightVars, mainVars >>

\* story['link'] in unique_stories
LinkSeen(link, stories) == \E j \in 1..Len(stories) : stories[j].link = link

\* A deduplication in which the last story of a link replaces the earlier one
DedupStepLastWins(story, stories) ==
    LET entry == SetKey(story, "clean_summary", CleanSummary(story.summary)) IN
    IF LinkSeen(story.link, stories)
    THEN [j \in 1..Len(stories) |-> IF stories[j].link = story.link THEN entry ELSE stories[j]]
    ELSE Append(stories, entry)

\* One iteration of the loop `for story in raw_stories`
DedupStep(story, stories) ==
    IF LinkSeen(story.link, stories) THEN stories
    ELSE Append(stories, SetKey(story, "clean_summary", CleanSummary(story.summary)))

\* 1. Deduplicate globally by link
Dedup ==
    /\ pc = "dedup"
    /\ cursor <= Len(raw_stories)
    /\ unique_stories' = DedupStep(raw_stories[cursor], unique_stories)
    /\ cursor' = cursor + 1
    /\ UNCHANGED << pc, raw_input, enabled, raw_stories, processed_stories, final_selection,
                    academic_count, emerging_count, report_insights, requests,
                    scoreVars, insightVars, mainVars >>

DedupEnd ==
    /\ pc = "dedup"
    /\ cursor > Len(raw_stories)
    /\ processed_stories' = << >>
    /\ cursor' = 1
    /\ pc' = "score"
    /\ UNCHANGED << raw_input, enabled, raw_stories, unique_stories, final_selection,
                    academic_count, emerging_count, report_insights, requests,
                    scoreVars, insightVars, mainVars >>

\* story['region'] = region; story['score'] = score
Tagged(story) ==
    LET full_text == FullText(story)
        region == _determine_region(story, full_text)
        score == _calculate_score(story, full_text, region)
    IN  SetKey(SetKey(story, "region", region), "score", score)

\* Score below or at which a story is excluded
NoiseFloor == -10

\* The threshold written with >= instead of >
PassesThresholdInclusive(story) == story.score >= NoiseFloor

\* if score > -10: processed_stories.append(story)
PassesThreshold(story) == story.score > NoiseFloor

\* 2. Score and Tag, one iteration of `for story in unique_stories.values()`
ScoreAndTag ==
    /\ pc = "score"
    /\ cursor <= Len(unique_stories)
    /\ LET story == Tagged(unique_stories[cursor]) IN
        /\ unique_stories' = [unique_stories EXCEPT ![cursor] = story]
        /\ processed_stories' = IF PassesThreshold(story)
                                THEN Append(processed_stories, story)
                                ELSE processed_stories
    /\ cursor' = cursor + 1
    /\ UNCHANGED << pc, raw_input, enabled, raw_stories, final_selection,
                    academic_count, emerging_count, report_insights, requests,
                    scoreVars, insightVars, mainVars >>

\* A sort key that is the score alone
KeyGEScoreOnly(a, b) == a.score >= b.score

\* key(a) >= key(b) for key = (score, published)
KeyGE(a, b) == a.score > b.score \/ (a.score = b.score /\ a.published >= b.published)

\* Insert x behind every element whose key is >= its own (equal keys keep arrival order)
RECURSIVE InsertDesc(_, _, _)
InsertDesc(x, sorted, i) ==
    IF i > Len(sorted) THEN Append(sorted, x)
    ELSE IF KeyGE(sorted[i], x) THEN InsertDesc(x, sorted, i + 1)
    ELSE SubSeq(sorted, 1, i - 1) \o << x >> \o SubSeq(sorted, i, Len(sorted))

\* list.sort(key=lambda x: (x['score'], x['published']), reverse=True): stable, descending
RECURSIVE SortDesc(_, _)
SortDesc(stories, n) ==
    IF n = 0 THEN << >>
    ELSE InsertDesc(stories[n], SortDesc(stories, n - 1), 1)

\* 3. Sort: Score (Desc), Date (Desc)
Sort ==
    /\ pc = "score"
    /\ cursor > Len(unique_stories)
    /\ processed_stories' = SortDesc(processed_stories, Len(processed_stories))
    /\ final_selection' = << >>
    /\ academic_count' = 0
    /\ emerging_count' = 0
    /\ cursor' = 1
    /\ pc' = "select"
    /\ UNCHANGED << raw_input, enabled, raw_stories, unique_stories, report_insights,
                    requests,
                    scoreVars, insightVars, mainVars >>

\* Hard cap of the selection
HardCap == 8

\* Academic Limit
AcademicMax == 1

\* Emerging Tech Limit
EmergingMax == 2

\* The cap test written with > instead of >=
CapReachedOffByOne(selection) == Len(selection) > HardCap

\* if len(final_selection) >= 8: break
CapReached(selection) == Len(selection) >= HardCap

\* if academic_count >= 1: continue
AcademicFull(story, count) == Get(story, "category", NoValue) = Academic /\ count >= AcademicMax

\* if emerging_count >= 2: continue
EmergingFull(story, count) == Get(story, "category", NoValue) = EmergingTech /\ count >= EmergingMax

\* 4. Selection: the loop ends by break at the cap
SelectBreak ==
    /\ pc = "select"
    /\ cursor <= Len(processed_stories)
    /\ CapReached(final_selection)
    /\ cursor' = 1
    /\ pc' = "enrich"
    /\ UNCHANGED << raw_input, enabled, raw_stories, unique_stories, processed_stories,
                    final_selection, academic_count, emerging_count, report_insights,
                    requests,
                    scoreVars, insightVars, mainVars >>

\* 4. Selection: the loop ends with the list
SelectEnd ==
    /\ pc = "select"
    /\ cursor > Len(processed_stories)
    /\ cursor' = 1
    /\ pc' = "enrich"
    /\ UNCHANGED << raw_input, enabled, raw_stories, unique_stories, processed_stories,
                    final_selection, academic_count, emerging_count, report_insights,
                    requests,
                    scoreVars, insightVars, mainVars >>

\* A full academic quota that ends the scan instead of skipping the story
SelectSkipAcademicBreaks ==
    /\ pc = "select"
    /\ cursor <= Len(processed_stories)
    /\ ~CapReached(final_selection)
    /\ AcademicFull(processed_stories[cursor], academic_count)
    /\ cursor' = 1
    /\ pc' = "enrich"
    /\ UNCHANGED << raw_input, enabled, raw_stories, unique_stories, processed_stories,
                    final_selection, academic_count, emerging_count, report_insights,
                    requests,
                    scoreVars, insightVars, mainVars >>

\* 4. Selection: `continue` on a full academic quota
SelectSkipAcademic ==
    /\ pc = "select"
    /\ cursor <= Len(processed_stories)
    /\ ~CapReached(final_selection)
    /\ AcademicFull(processed_stories[cursor], academic_count)
    /\ cursor' = cursor + 1
    /\ UNCHANGED << pc, raw_input, enabled, raw_stories, unique_stories, processed_stories,
                    final_selection, academic_count, emerging_count, report_insights,
                    requests,
                    scoreVars, insightVars, mainVars >>

\* 4. Selection: `continue` on a full emerging quota
SelectSkipEmerging ==
    /\ pc = "select"
    /\ cursor <= Len(processed_stories)
    /\ ~CapReached(final_selection)
    /\ ~AcademicFull(processed_stories[cursor], academic_count)
    /\ EmergingFull(processed_stories[cursor], emerging_count)
    /\ cursor' = cursor + 1
    /\ UNCHANGED << pc, raw_input, enabled, raw_stories, unique_stories, processed_stories,
                    final_selection, academic_count, emerging_count, report_insights,
                    requests,
                    scoreVars, insightVars, mainVars >>

\* 4. Selection: final_selection.append(story)
SelectTake ==
    /\ pc = "select"
    /\ cursor <= Len(processed_stories)
    /\ ~CapReached(final_selection)
    /\ LET story == processed_stories[cursor] IN
        /\ ~AcademicFull(story, academic_count)
        /\ ~EmergingFull(story, emerging_count)
        /\ academic_count' = IF Get(story, "category", NoValue) = Academic
                             THEN academic_count + 1 ELSE academic_count
        /\ emerging_count' = IF Get(story, "category", NoValue) = EmergingTech
                             THEN emerging_count + 1 ELSE emerging_count
        /\ final_selection' = Append(final_selection, story)
    /\ cursor' = cursor + 1
    /\ UNCHANGED << pc, raw_input, enabled, raw_stories, unique_stories, processed_stories,
                    report_insights, requests,
                    scoreVars, insightVars, mainVars >>

-----------------------------------------------------------------------------
(* InsightGenerator (src/src/insights.py) *)

\* line.startswith(prefix)
StartsWith(line, prefix) ==
    /\ Len(line) >= Len(prefix)
    /\ SubSeq(line, 1, Len(prefix)) = prefix

\* text.find(term) + 1: the place of the first occurrence, 0 when there is none
IndexOf(text, term) ==
    LET places == { i \in 1..(Len(text) - Len(term) + 1) :
                      SubSeq(text, i, i + Len(term) - 1) = term }
    IN  IF places = {} THEN 0 ELSE CHOOSE i \in places : \A j \in places : i <= j

\* text.replace(old, ''): every occurrence removed, left to right
RECURSIVE Remove(_, _)
Remove(text, old) ==
    LET at == IndexOf(text, old) IN
    IF at = 0 THEN text
    ELSE SubSeq(text, 1, at - 1) \o Remove(SubSeq(text, at + Len(old), Len(text)), old)

\* text.split(sep)
RECURSIVE Split(_, _)
Split(text, sep) ==
    LET at == IndexOf(text, sep) IN
    IF at = 0 THEN << text >>
    ELSE << SubSeq(text, 1, at - 1) >> \o Split(SubSeq(text, at + Len(sep), Len(text)), sep)

\* text.split(sep, 1)
SplitOnce(text, sep) ==
    LET at == IndexOf(text, sep) IN
    IF at = 0 THEN << text >>
    ELSE << SubSeq(text, 1, at - 1), SubSeq(text, at + Len(sep), Len(text)) >>

\* InsightGenerator.__init__: enabled with an API key whose configuration does not raise
InsightGenerator_init(api_key, configure_raises) ==
    IF api_key THEN (IF configure_raises THEN FALSE ELSE TRUE) ELSE FALSE

\* What self.model.generate_content(prompt) does when no call is made
NoCall == [raises |-> FALSE, text |-> ""]

\* _generate_text: "" when not enabled and when the call raises, else response.text.strip()
_generate_text(prompt, outcome) ==
    IF ~enabled THEN ""
    ELSE IF outcome.raises THEN ""
    ELSE Strip(outcome.text)

\* The prompt of analyze_story, by what it is built from
AnalyzePrompt(story, region) ==
    [task |-> "analyze",
     title |-> Get(story, "title", ""),
     summary |-> Get(story, "clean_summary", ""),
     category |-> Get(story, "category", ""),
     region |-> region,
     kenya_instruction |-> (region = "Kenya")]

\* result = {'significance': 'Medium', 'why_it_matters': '', ...}
AnalysisDefaults ==
    [significance |-> "Medium", why_it_matters |-> "", who_should_care |-> "",
     action |-> "", kenya_context |-> ""]

\* result[key] = line.replace(label, '').strip()
LabelValue(line, label) == Strip(Remove(line, label))

\* One iteration of the parsing loop of analyze_story
AnalysisLine(result, raw_line) ==
    LET line == Strip(raw_line) IN
    IF StartsWith(line, "Significance:")
    THEN [result EXCEPT !.significance = LabelValue(line, "Significance:")]
    ELSE IF StartsWith(line, "Why:")
    THEN [result EXCEPT !.why_it_matters = LabelValue(line, "Why:")]
    ELSE IF StartsWith(line, "Who:")
    THEN [result EXCEPT !.who_should_care = LabelValue(line, "Who:")]
    ELSE IF StartsWith(line, "Action:")
    THEN [result EXCEPT !.action = LabelValue(line, "Action:")]
    ELSE IF StartsWith(line, "Context:")
    THEN [result EXCEPT !.kenya_context = LabelValue(line, "Context:")]
    ELSE result

\* for line in response_text.split('\n'), from line i on
RECURSIVE AnalysisLoop(_, _, _)
AnalysisLoop(result, lines, i) ==
    IF i > Len(lines) THEN result
    ELSE AnalysisLoop(AnalysisLine(result, lines[i]), lines, i + 1)

\* InsightGenerator.analyze_story; outcome is what the collaborator does with the prompt
analyze_story(story, region, outcome) ==
    IF ~enabled THEN [k \in {} |-> ""]
    ELSE LET response_text == _generate_text(AnalyzePrompt(story, region), outcome)
         IN  AnalysisLoop(AnalysisDefaults, Split(response_text, "\n"), 1)

\* "- " + title of every story of the list
RECURSIVE TitleLines(_, _)
TitleLines(stories, i) ==
    IF i > Len(stories) THEN << >>
    ELSE << "- " \o Get(stories[i], "title", "") >> \o TitleLines(stories, i + 1)

\* context_lines of generate_briefing_insight; all_stories is the dict's items in order
RECURSIVE ContextLines(_, _)
ContextLines(all_stories, i) ==
    IF i > Len(all_stories) THEN << >>
    ELSE (IF all_stories[i].stories # << >>
          THEN << "Category: " \o all_stories[i].cat >> \o TitleLines(all_stories[i].stories, 1)
          ELSE << >>)
         \o ContextLines(all_stories, i + 1)

\* The prompt of generate_briefing_insight, by what it is built from
BriefingPrompt(all_stories) ==
    [task |-> "briefing", context |-> ContextLines(all_stories, 1)]

\* A parse that splits on every " - " and keeps the first two parts
\* (parts = content.split(' - '); t, d = parts[0], parts[1])
SignalOfSplitsAll(line) ==
    LET parts == SplitOnce(line, ":") IN
    IF Len(parts) > 1
    THEN LET content == Strip(parts[2]) IN
         IF Contains(content, " - ")
         THEN LET td == Split(content, " - ")
              IN  << [title |-> td[1], description |-> td[2]] >>
         ELSE << [title |-> "Trend", description |-> content] >>
    ELSE << >>

\* The signal a SIGNAL line yields, as a list of at most one entry
SignalOf(line) ==
    LET parts == SplitOnce(line, ":") IN
    IF Len(parts) > 1
    THEN LET content == Strip(parts[2]) IN
         IF Contains(content, " - ")
         THEN LET td == SplitOnce(content, " - ")
              IN  << [title |-> td[1], description |-> td[2]] >>
         ELSE << [title |-> "Trend", description |-> content] >>
    ELSE << >>

\* A parsing loop in which a SIGNAL line does not close the summary section
BriefingLineSummaryStaysOpen(st, raw_line) ==
    LET line == Strip(raw_line) IN
    IF line = "" THEN st
    ELSE IF StartsWith(line, "SUMMARY:") THEN [st EXCEPT !.current_section = "summary"]
    ELSE IF StartsWith(line, "SIGNAL")
    THEN [st EXCEPT !.signals = st.signals \o SignalOf(line)]
    ELSE IF st.current_section = "summary"
    THEN [st EXCEPT !.summary_lines = Append(st.summary_lines, line)]
    ELSE st

\* One iteration of the parsing loop of generate_briefing_insight
BriefingLine(st, raw_line) ==
    LET line == Strip(raw_line) IN
    IF line = "" THEN st
    ELSE IF StartsWith(line, "SUMMARY:") THEN [st EXCEPT !.current_section = "summary"]
    ELSE IF StartsWith(line, "SIGNAL")
    THEN [st EXCEPT !.current_section = "signal", !.signals = st.signals \o SignalOf(line)]
    ELSE IF st.current_section = "summary"
    THEN [st EXCEPT !.summary_lines = Append(st.summary_lines, line)]
    ELSE st

\* for line in response_text.split('\n'), from line i on
RECURSIVE BriefingLoop(_, _, _)
BriefingLoop(st, lines, i) ==
    IF i > Len(lines) THEN st
    ELSE BriefingLoop(BriefingLine(st, lines[i]), lines, i + 1)

\* InsightGenerator.generate_briefing_insight
generate_briefing_insight(all_stories, outcome) ==
    IF ~enabled THEN [executive_summary |-> "", signals |-> << >>]
    ELSE LET response_text == _generate_text(BriefingPrompt(all_stories), outcome)
             st == BriefingLoop([current_section |-> "none", summary_lines |-> << >>,
                                 signals |-> << >>],
                                Split(response_text, "\n"), 1)
         IN  [executive_summary |-> JoinNodes(st.summary_lines, " ", 1),
              signals |-> st.signals]

-----------------------------------------------------------------------------
(* ContentProcessor.process: enrichment *)

\* An enrichment that copies only the fields the analysis holds (story.update(analysis))
EnrichedByUpdate(story, analysis) == analysis @@ story

\* The five fields process() copies from the analysis, with their defaults
Enriched(story, analysis) ==
    SetKey(SetKey(SetKey(SetKey(SetKey(story,
        "significance", Get(analysis, "significance", "Medium")),
        "why_it_matters", Get(analysis, "why_it_matters", "")),
        "who_should_care", Get(analysis, "who_should_care", "")),
        "action", Get(analysis, "action", "")),
        "kenya_context", Get(analysis, "kenya_context", ""))

\* The call raises
Failure == [raises |-> TRUE, text |-> ""]

\* An answer in the format asked of analyze_story, with a Context line
StoryAnswer ==
    [raises |-> FALSE,
     text |-> "Significance: High\nWhy: Banks are exposed\nContext: ODPC rules apply\n"]

\* An answer in the format asked of generate_briefing_insight
BatchAnswer ==
    [raises |-> FALSE,
     text |-> "SUMMARY:\nA quiet week\n\nSIGNAL 1: Phishing - rising in the region"]

\* What the collaborator may do with one call
Outcomes == { Failure, StoryAnswer, BatchAnswer }

\* The outcomes of the next call: none is made unless the generator is enabled
CallOutcomes == IF enabled THEN Outcomes ELSE { NoCall }

\* A generator that calls the collaborator a second time when the call raises
LoggedWithRetry(prompt, outcome) ==
    IF enabled
    THEN (IF outcome.raises
          THEN requests \o << [prompt |-> prompt, outcome |-> outcome],
                              [prompt |-> prompt, outcome |-> outcome] >>
          ELSE Append(requests, [prompt |-> prompt, outcome |-> outcome]))
    ELSE requests

\* The log after a call with this prompt and outcome
Logged(prompt, outcome) ==
    IF enabled THEN Append(requests, [prompt |-> prompt, outcome |-> outcome])
    ELSE requests

\* An enrichment loop without the try/except of _generate_text: a call that raises
\* ends process()
EnrichStoryPropagates ==
    /\ pc = "enrich"
    /\ cursor <= Len(final_selection)
    /\ \E outcome \in CallOutcomes :
         LET story == final_selection[cursor]
             region == Get(story, "region", "Global")
             analysis == analyze_story(story, region, outcome)
         IN  /\ final_selection' = IF outcome.raises THEN final_selection
                                   ELSE [final_selection EXCEPT
                                            ![cursor] = Enriched(story, analysis)]
             /\ requests' = Logged(AnalyzePrompt(story, region), outcome)
             /\ pc' = IF outcome.raises THEN "raised" ELSE pc
             /\ cursor' = IF outcome.raises THEN cursor ELSE cursor + 1
    /\ UNCHANGED << raw_input, enabled, raw_stories, unique_stories, processed_stories,
                    academic_count, emerging_count, report_insights,
                    scoreVars, insightVars, mainVars >>

\* 5. Enrichment, one iteration of `for story in final_selection`
EnrichStory ==
    /\ pc = "enrich"
    /\ cursor <= Len(final_selection)
    /\ \E outcome \in CallOutcomes :
         LET story == final_selection[cursor]
             region == Get(story, "region", "Global")
             analysis == analyze_story(story, region, outcome)
         IN  /\ final_selection' = [final_selection EXCEPT
                                        ![cursor] = Enriched(story, analysis)]
             /\ requests' = Logged(AnalyzePrompt(story, region), outcome)
    /\ cursor' = cursor + 1
    /\ UNCHANGED << pc, raw_input, enabled, raw_stories, unique_stories, processed_stories,
                    academic_count, emerging_count, report_insights,
                    scoreVars, insightVars, mainVars >>

\* report_context = {"Top Stories": final_selection}
ReportContext(selection) == << [cat |-> "Top Stories", stories |-> selection] >>

\* Report-level insights, then return final_selection, report_insights
BriefingInsight ==
    /\ pc = "enrich"
    /\ cursor > Len(final_selection)
    /\ \E outcome \in CallOutcomes :
         LET report_context == ReportContext(final_selection) IN
         /\ report_insights' = generate_briefing_insight(report_context, outcome)
         /\ requests' = Logged(BriefingPrompt(report_context), outcome)
    /\ pc' = "done"
    /\ UNCHANGED << raw_input, enabled, raw_stories, unique_stories, processed_stories,
                    final_selection, academic_count, emerging_count, cursor,
                    scoreVars, insightVars, mainVars >>

Next ==
    \/ Begin
    \/ Dedup
    \/ DedupEnd
    \/ ScoreAndTag
    \/ Sort
    \/ SelectBreak
    \/ SelectEnd
    \/ SelectSkipAcademic
    \/ SelectSkipEmerging
    \/ SelectTake
    \/ EnrichStory
    \/ BriefingInsight

Spec == Init /\ [][Next]_vars

-----------------------------------------------------------------------------
(* process() with a collaborator: short batches of stories with long          *)
(* summaries, foreign or missing category labels and shared links             *)

\* text written n times
RECURSIVE Repeat(_, _)
Repeat(text, n) == IF n = 0 THEN "" ELSE text \o Repeat(text, n - 1)

\* A story without the 'category' key
Unlabelled(story) == [k \in DOMAIN story \ { "category" } |-> story[k]]

\* 1: Kenya.  2: Global, foreign label, 401 characters of text inside tags.
\* 3: East Africa, no label, exactly 400 characters of text between blanks and tags.
\* 4: the link of 1, scored below the noise floor.
\* 5: Global, two text nodes of 200 and 210 characters.
EnrichPool ==
    << Pool[1],
       Story("Router firmware flaw exploited", "https://t.example/21",
             "<p>" \o Repeat("0123456789", 40) \o "x</p>", 2, "Threatpost", "unknown"),
       Unlabelled(Story("Digital identity regulation in Uganda", "https://t.example/22",
             "  <div>" \o Repeat("0123456789", 40) \o "</div><br/> ", 3,
             "Schneier on Security", "")),
       Story("Election ransomware attack in Kenya", "https://t.example/1",
             "", 3, "CIO Africa", "Regional Focus"),
       Story("New paper on zero-day detection", "https://t.example/23",
             "<b>" \o Repeat("0123456789", 20) \o "</b>" \o Repeat("9876543210", 21),
             1, "arXiv (Security)", Academic) >>

\* The category labels of the collector's sources, and the one only process() names
KnownCategories ==
    { "Regional Focus", "Emerging Threats & Attack Patterns",
      "Defensive Techniques & Blue Team Strategies",
      "Tools, Frameworks & Open-Source Spotlight", Academic,
      "Vulnerabilities & Exploit Analysis", "Security Failures & Postmortems",
      "Ethics, Law & Policy in Cybersecurity", "AI, Automation & Cybersecurity",
      "Sector-Specific Security", EmergingTech }

\* Bound on the length of the batches drawn from EnrichPool
MaxEnrich == 2

\* Every sequence of at most MaxEnrich stories of EnrichPool, and the whole of Pool
EnrichBatches ==
    UNION { [1..n -> { EnrichPool[i] : i \in 1..Len(EnrichPool) }] : n \in 0..MaxEnrich }
    \cup { Pool }

EnrichInputs ==
    { [none |-> TRUE, stories |-> << >>] }
    \cup { [none |-> FALSE, stories |-> b] : b \in EnrichBatches }

InitEnrich ==
    /\ pc = "start"
    /\ raw_input \in EnrichInputs
    /\ \E api_key \in BOOLEAN, configure_raises \in BOOLEAN :
          enabled = InsightGenerator_init(api_key, configure_raises)
    /\ raw_stories = << >>
    /\ unique_stories = << >>
    /\ processed_stories = << >>
    /\ final_selection = << >>
    /\ academic_count = 0
    /\ emerging_count = 0
    /\ cursor = 0
    /\ report_insights = [executive_summary |-> "", signals |-> << >>]
    /\ requests = << >>
    /\ ScoreIdle
    /\ InsightIdle
    /\ MainIdle

SpecEnrich == InitEnrich /\ [][Next]_vars

-----------------------------------------------------------------------------
(* main() (src/src/main.py): validate the configuration, collect, process,    *)
(* send the briefing                                                          *)

\* Python: `not value` for a list or a tuple
Falsy(value) == Len(value) = 0

\* What NewsCollector.collect_news may return
MainBatches == EnrichBatches

WarnNoneFound == "No stories found in the last 24 hours. Exiting."

WarnNoneRemained == "No stories remained after processing. Exiting."

CriticalFailure == "Critical failure"

InitMain ==
    /\ pc = "idle"
    /\ raw_input = [none |-> TRUE, stories |-> << >>]
    /\ \E api_key \in BOOLEAN, configure_raises \in BOOLEAN :
          enabled = InsightGenerator_init(api_key, configure_raises)
    /\ raw_stories = << >>
    /\ unique_stories = << >>
    /\ processed_stories = << >>
    /\ final_selection = << >>
    /\ academic_count = 0
    /\ emerging_count = 0
    /\ cursor = 0
    /\ report_insights = [executive_summary |-> "", signals |-> << >>]
    /\ requests = << >>
    /\ ScoreIdle
    /\ InsightIdle
    /\ m_pc = "validate"
    /\ m_config \in BOOLEAN
    /\ m_raw_stories = << >>
    /\ top_stories = << >>
    /\ m_log = << >>
    /\ sent = << >>

\* validate_config(): ValueError when a variable is missing, caught by main(), sys.exit(1)
ValidateConfig ==
    /\ m_pc = "validate"
    /\ IF m_config
       THEN /\ m_pc' = "collect"
            /\ m_log' = m_log
       ELSE /\ m_pc' = "exit"
            /\ m_log' = Append(m_log, CriticalFailure)
    /\ UNCHANGED << m_config, m_raw_stories, top_stories, sent,
                    pipeVars, scoreVars, insightVars >>

\* raw_stories = collector.collect_news()
CollectNews ==
    /\ m_pc = "collect"
    /\ m_raw_stories' \in MainBatches
    /\ m_pc' = "collected"
    /\ UNCHANGED << m_config, top_stories, m_log, sent, pipeVars, scoreVars, insightVars >>

\* if not raw_stories: warning, return; else processor.process(raw_stories) is entered
CallProcess ==
    /\ m_pc = "collected"
    /\ IF Falsy(m_raw_stories)
       THEN /\ m_log' = Append(m_log, WarnNoneFound)
            /\ m_pc' = "returned"
            /\ UNCHANGED << pc, raw_input >>
       ELSE /\ raw_input' = [none |-> FALSE, stories |-> m_raw_stories]
            /\ pc' = "start"
            /\ m_pc' = "process"
            /\ m_log' = m_log
    /\ UNCHANGED << m_config, m_raw_stories, top_stories, sent,
                    enabled, raw_stories, unique_stories, processed_stories,
                    final_selection, academic_count, emerging_count, cursor,
                    report_insights, requests, scoreVars, insightVars >>

\* top_stories = processor.process(raw_stories): process() returns
\* final_selection, report_insights
ProcessReturns ==
    /\ m_pc = "process"
    /\ pc = "done"
    /\ top_stories' = << final_selection, report_insights >>
    /\ m_pc' = "processed"
    /\ UNCHANGED << m_config, m_raw_stories, m_log, sent, pipeVars, scoreVars, insightVars >>

\* if not top_stories: warning, return; else emailer.send_briefing(top_stories), which
\* raises again what the rendering or the SMTP session raised
SendBriefing ==
    /\ m_pc = "processed"
    /\ IF Falsy(top_stories)
       THEN /\ m_log' = Append(m_log, WarnNoneRemained)
            /\ m_pc' = "returned"
            /\ sent' = sent
       ELSE /\ sent' = Append(sent, [stories |-> top_stories])
            /\ \E raises \in BOOLEAN :
                 IF raises
                 THEN /\ m_log' = Append(m_log, CriticalFailure)
                      /\ m_pc' = "exit"
                 ELSE /\ m_log' = m_log
                      /\ m_pc' = "returned"
    /\ UNCHANGED << m_config, m_raw_stories, top_stories, pipeVars, scoreVars, insightVars >>

NextMain ==
    \/ ValidateConfig
    \/ CollectNews
    \/ CallProcess
    \/ Next
    \/ ProcessReturns
    \/ SendBriefing

SpecMain == InitMain /\ [][NextMain]_vars

-----------------------------------------------------------------------------
(* The two parsers of InsightGenerator on one answer of the collaborator *)

\* Bound on the number of lines of an answer to analyze_story
MaxStoryLines == 3

\* Bound on the number of lines of an answer to generate_briefing_insight
MaxBriefLines == 4

\* Lines an answer to analyze_story is made of
StoryVocabulary ==
    << "Significance: High", "Significance: Severe", "significance: low",
       " Why: Banks are exposed ", "Why: Why: twice", "Who: Banks, SMEs",
       "Action: Patch now", "Context: ODPC rules apply", "Here is the analysis", "" >>

\* Lines an answer to generate_briefing_insight is made of
BriefVocabulary ==
    << "SUMMARY:", "SUMMARY: Inline text", " A quiet week ", "Second line", "",
       "SIGNAL 2: Cloud - leaks - again", "SIGNAL 3: No separator here", "SIGNAL",
       "SIGNAL 4: - no title" >>

\* Every text of at most n lines of the vocabulary, the lines joined by "\n"
AnswerTexts(vocabulary, n) ==
    UNION { { JoinNodes([i \in 1..k |-> vocabulary[f[i]]], "\n", 1) :
                f \in [1..k -> 1..Len(vocabulary)] } : k \in 0..n }

AnswersOf(vocabulary, n) ==
    { Failure } \cup { [raises |-> FALSE, text |-> t] : t \in AnswerTexts(vocabulary, n) }

\* The story analyze_story is called with
InsightStory == SetKey(Pool[1], "clean_summary", "Details inside")

InitInsight ==
    /\ pc = "idle"
    /\ raw_input = [none |-> TRUE, stories |-> << >>]
    /\ enabled = TRUE
    /\ raw_stories = << >>
    /\ unique_stories = << >>
    /\ processed_stories = << >>
    /\ final_selection = << >>
    /\ academic_count = 0
    /\ emerging_count = 0
    /\ cursor = 0
    /\ report_insights = [executive_summary |-> "", signals |-> << >>]
    /\ requests = << >>
    /\ ScoreIdle
    /\ MainIdle
    /\ i_result = << >>
    /\ \/ /\ i_pc = "analyze"
          /\ i_region \in { "Kenya", "East Africa", "Global" }
          /\ i_outcome \in AnswersOf(StoryVocabulary, MaxStoryLines)
       \/ /\ i_pc = "briefing"
          /\ i_region = "Global"
          /\ i_outcome \in AnswersOf(BriefVocabulary, MaxBriefLines)

\* analysis = self.insight_gen.analyze_story(story, region=...)
AnalyzeStory ==
    /\ i_pc = "analyze"
    /\ i_result' = analyze_story(InsightStory, i_region, i_outcome)
    /\ i_pc' = "analyzed"
    /\ UNCHANGED << i_region, i_outcome, pipeVars, scoreVars, mainVars >>

\* report_insights = self.insight_gen.generate_briefing_insight(report_context)
GenerateBriefingInsight ==
    /\ i_pc = "briefing"
    /\ i_result' = generate_briefing_insight(ReportContext(<< InsightStory >>), i_outcome)
    /\ i_pc' = "briefed"
    /\ UNCHANGED << i_region, i_outcome, pipeVars, scoreVars, mainVars >>

NextInsight == AnalyzeStory \/ GenerateBriefingInsight

SpecInsight == InitInsight /\ [][NextInsight]_vars

-----------------------------------------------------------------------------
(* Properties of the selection *)

\* Number of stories of a category in a list
RECURSIVE CountCategory(_, _)
CountCategory(stories, category) ==
    IF stories = << >> THEN 0
    ELSE (IF stories[1].category = category THEN 1 ELSE 0)
         + CountCategory(Tail(stories), category)

LinksOf(stories) == { stories[i].link : i \in 1..Len(stories) }

Selected(story) == story.link \in LinksOf(final_selection)

SelectionStarted == pc \in { "select", "enrich", "done" }

SelectionOver == pc \in { "enrich", "done" }

\* C1: in every state of process() - after every iteration of the selection loop and
\* on return - the selection holds at most 8 stories, at most 1 of category
\* 'Academic Research & Papers' and at most 2 of category 'Emerging Technologies'.
C1_QuotaEnforcement ==
    /\ Len(final_selection) <= 8
    /\ CountCategory(final_selection, "Academic Research & Papers") <= 1
    /\ CountCategory(final_selection, "Emerging Technologies") <= 2

\* process() has returned a selection that is full on all three bounds although more
\* survivors, more academic and more emerging stories were offered
C1_Witness ==
    /\ pc = "done"
    /\ Len(final_selection) = 8
    /\ Len(processed_stories) > 8
    /\ CountCategory(final_selection, "Academic Research & Papers") = 1
    /\ CountCategory(processed_stories, "Academic Research & Papers") > 1
    /\ CountCategory(final_selection, "Emerging Technologies") = 2
    /\ CountCategory(processed_stories, "Emerging Technologies") > 2

\* The quota of a story's category is full in the selection
QuotaFull(story, selection) ==
    \/ /\ story.category = "Academic Research & Papers"
       /\ CountCategory(selection, "Academic Research & Papers") >= 1
    \/ /\ story.category = "Emerging Technologies"
       /\ CountCategory(selection, "Emerging Technologies") >= 2

\* A step of the selection loop that reaches a survivor and does not select it
C2_LeftOut ==
    /\ pc = "select"
    /\ cursor <= Len(processed_stories)
    /\ final_selection' = final_selection

\* C2, per step: a survivor reached by the scan is left out only if 8 stories were
\* already selected or the quota of its own category was already full; and a story
\* left out for its quota does not stop the scan, which moves on to the next survivor.
C2_StepRule ==
    C2_LeftOut =>
        /\ Len(final_selection) >= 8 \/ QuotaFull(processed_stories[cursor], final_selection)
        /\ Len(final_selection) < 8 => pc' = "select" /\ cursor' = cursor + 1

\* C2, on the result: when fewer than 8 stories are selected, every unselected
\* survivor belongs to a category with a quota, and that quota is full.
C2_ResultRule ==
    (SelectionOver /\ Len(final_selection) < 8) =>
        \A i \in 1..Len(processed_stories) :
            ~Selected(processed_stories[i]) => QuotaFull(processed_stories[i], final_selection)

\* C2: a full quota skips the story without stopping the scan
C2_SkipDoesNotStop == [][C2_StepRule]_vars /\ []C2_ResultRule

\* The scan has skipped a survivor for its quota and selected a later one, and the
\* selection has fewer than 8 stories
C2_Witness ==
    /\ pc = "done"
    /\ Len(final_selection) < 8
    /\ \E i, j \in 1..Len(processed_stories) :
        /\ i < j
        /\ ~Selected(processed_stories[i])
        /\ Selected(processed_stories[j])

\* a stands before b in the order (score descending, published descending)
C3_InOrder(a, b) ==
    a.score > b.score \/ (a.score = b.score /\ a.published >= b.published)

\* The links of `small` occur in `big` in the same relative order
RECURSIVE IsSubsequence(_, _)
IsSubsequence(small, big) ==
    IF small = << >> THEN TRUE
    ELSE IF big = << >> THEN FALSE
    ELSE IF small[1].link = big[1].link THEN IsSubsequence(Tail(small), Tail(big))
    ELSE IsSubsequence(small, Tail(big))

\* C3: from the sort on, the survivor list and the selection are ordered by score
\* descending, equal scores by published descending, and the selection is a
\* subsequence of the sorted survivor list.
C3_SelectionOrdered ==
    SelectionStarted =>
        /\ \A i, j \in 1..Len(processed_stories) :
            i < j => C3_InOrder(processed_stories[i], processed_stories[j])
        /\ \A i, j \in 1..Len(final_selection) :
            i < j => C3_InOrder(final_selection[i], final_selection[j])
        /\ IsSubsequence(final_selection, processed_stories)

\* Position of the first story of raw_stories with this link
FirstIndex(link) ==
    CHOOSE i \in 1..Len(raw_stories) :
        /\ raw_stories[i].link = link
        /\ \A j \in 1..(i - 1) : raw_stories[j].link # link

\* The selection returned holds two stories of equal score that arrived in the order
\* opposite to their published timestamps, and a story was left out in between
C3_Witness ==
    /\ pc = "done"
    /\ Len(final_selection) < Len(processed_stories)
    /\ \E i, j \in 1..Len(final_selection) :
        /\ i < j
        /\ final_selection[i].score = final_selection[j].score
        /\ final_selection[i].published > final_selection[j].published
        /\ FirstIndex(final_selection[i].link) > FirstIndex(final_selection[j].link)

-----------------------------------------------------------------------------
(* Properties of deduplication and of the score threshold *)

DedupOver == pc \notin { "start", "dedup" }

\* The deduplication loop run over a whole batch
RECURSIVE DedupAll(_, _)
DedupAll(batch, n) ==
    IF n = 0 THEN << >> ELSE DedupStep(batch[n], DedupAll(batch, n - 1))

\* C4: after deduplication the working set holds exactly one story per distinct link
\* of the batch, that story is the first of its link in arrival order (title, summary
\* and the other input fields are those of the first occurrence), the working set is
\* in first-seen order, its size is the number of distinct links, and deduplicating it
\* again changes nothing.
C4_DedupFirstWins ==
    DedupOver =>
        /\ \A k, l \in 1..Len(unique_stories) :
            k # l => unique_stories[k].link # unique_stories[l].link
        /\ LinksOf(unique_stories) = LinksOf(raw_stories)
        /\ Len(unique_stories) = Cardinality(LinksOf(raw_stories))
        /\ \A k \in 1..Len(unique_stories) :
            LET first == raw_stories[FirstIndex(unique_stories[k].link)] IN
            /\ unique_stories[k].title = first.title
            /\ unique_stories[k].summary = first.summary
            /\ unique_stories[k].published = first.published
            /\ unique_stories[k].source = first.source
            /\ unique_stories[k].category = first.category
        /\ \A k, l \in 1..Len(unique_stories) :
            k < l => FirstIndex(unique_stories[k].link) < FirstIndex(unique_stories[l].link)
        /\ DedupAll(unique_stories, Len(unique_stories)) = unique_stories

\* Deduplication has just ended on a batch in which a link came twice with different
\* titles and summaries, and the working set is smaller than the batch
C4_Witness ==
    /\ pc = "score"
    /\ cursor = 1
    /\ Len(unique_stories) >= 2
    /\ Len(unique_stories) < Len(raw_stories)
    /\ \E i, j \in 1..Len(raw_stories) :
        /\ i < j
        /\ raw_stories[i].link = raw_stories[j].link
        /\ raw_stories[i].title # raw_stories[j].title
        /\ raw_stories[i].summary # raw_stories[j].summary

\* The stories of the working set scored so far
ScoredCount == IF pc = "score" THEN cursor - 1 ELSE Len(unique_stories)

\* The links of the first n stories whose score exceeds -10, in order
RECURSIVE LinksAboveFloor(_, _)
LinksAboveFloor(stories, n) ==
    IF n = 0 THEN << >>
    ELSE IF stories[n].score > -10
         THEN Append(LinksAboveFloor(stories, n - 1), stories[n].link)
         ELSE LinksAboveFloor(stories, n - 1)

LinkSeq(stories) == [i \in 1..Len(stories) |-> stories[i].link]

\* C5: a deduplicated story is passed on to sorting and selection if and only if its
\* score is strictly greater than -10 (a story scoring exactly -10 is dropped); every
\* story in the selection has score > -10.
C5_NoiseFloor ==
    /\ pc = "score" =>
        LinkSeq(processed_stories) = LinksAboveFloor(unique_stories, ScoredCount)
    /\ SelectionStarted =>
        /\ LinksOf(processed_stories) =
              { unique_stories[k].link : k \in { m \in 1..Len(unique_stories) :
                                                    unique_stories[m].score > -10 } }
        /\ Len(processed_stories) =
              Cardinality({ m \in 1..Len(unique_stories) : unique_stories[m].score > -10 })
    /\ \A i \in 1..Len(final_selection) : final_selection[i].score > -10

\* Scoring is over; one story scored exactly -10 and one below, both are dropped, and
\* a story scoring above is kept
C5_Witness ==
    /\ pc = "select"
    /\ \E k \in 1..Len(unique_stories) :
        /\ unique_stories[k].score = -10
        /\ unique_stories[k].link \notin LinksOf(processed_stories)
    /\ \E k \in 1..Len(unique_stories) :
        /\ unique_stories[k].score < -10
        /\ unique_stories[k].link \notin LinksOf(processed_stories)
    /\ \E k \in 1..Len(unique_stories) :
        /\ unique_stories[k].score > -10
        /\ unique_stories[k].link \in LinksOf(processed_stories)

-----------------------------------------------------------------------------
(* Properties of the score *)

\* The terms of a table that occur in the lower-cased text
Matches(table, text_lower) == { i \in 1..Len(table) : Contains(text_lower, table[i]) }

RegionBase(region) ==
    CASE region = "Kenya" -> 5 [] region = "East Africa" -> 3 [] region = "Global" -> 0

\* Region base plus the bonus and penalty terms
ScoreSum(region, text_lower) ==
    RegionBase(region)
    + (IF Matches(impact_keywords, text_lower) # {} THEN 15 ELSE 0)
    + 5 * Cardinality(Matches(priority_topics, text_lower))
    - (IF Matches(noise_keywords, text_lower) # {} THEN 50 ELSE 0)
    - (IF Matches(politics_keywords, text_lower) # {} /\ Matches(tech_context, text_lower) = {}
       THEN 50 ELSE 0)

\* 'ransomware attack' and 'kenya', no priority-topic, noise or politics term
C10_PlainCase(text_lower) ==
    /\ Contains(text_lower, "ransomware attack")
    /\ Contains(text_lower, "kenya")
    /\ Matches(priority_topics, text_lower) = {}
    /\ Matches(noise_keywords, text_lower) = {}
    /\ Matches(politics_keywords, text_lower) = {}

\* The same with 'election' added and no technology-context term
C10_ElectionCase(text_lower) ==
    /\ Contains(text_lower, "ransomware attack")
    /\ Contains(text_lower, "kenya")
    /\ Contains(text_lower, "election")
    /\ Matches(priority_topics, text_lower) = {}
    /\ Matches(noise_keywords, text_lower) = {}
    /\ Matches(tech_context, text_lower) = {}

C10_StoryRule(story) ==
    LET text_lower == Lower(FullText(story)) IN
    /\ story.score = ScoreSum(story.region, text_lower)
    /\ C10_PlainCase(text_lower) =>
          story.score = 20 /\ story.link \in LinksOf(processed_stories)
    /\ C10_ElectionCase(text_lower) =>
          story.score = -30 /\ story.link \notin LinksOf(processed_stories)

\* C10: the score of a story is the region base (Kenya 5, East Africa 3, Global 0) plus
\* the bonus and penalty terms; a story with 'ransomware attack' and 'kenya' and no
\* topic, noise or politics term scores 20 and is kept; with 'election' added and no
\* technology-context term it scores -30 and is dropped before selection.  Stated of
\* the story just scored, and of every story of the working set when process() returns.
C10_ScoreSum ==
    /\ (pc = "score" /\ cursor > 1) => C10_StoryRule(unique_stories[cursor - 1])
    /\ pc = "done" => \A k \in 1..Len(unique_stories) : C10_StoryRule(unique_stories[k])

\* process() has returned; the batch held a story of each of the two cases, the first
\* scored 20 and was selected, the second scored -30 and was dropped
C10_Witness ==
    /\ pc = "done"
    /\ \E k \in 1..Len(unique_stories) :
        /\ C10_PlainCase(Lower(FullText(unique_stories[k])))
        /\ unique_stories[k].score = 20
        /\ Selected(unique_stories[k])
    /\ \E k \in 1..Len(unique_stories) :
        /\ C10_ElectionCase(Lower(FullText(unique_stories[k])))
        /\ unique_stories[k].score = -30
        /\ ~Selected(unique_stories[k])

-----------------------------------------------------------------------------
(* Properties of _determine_region and of the blocks of _calculate_score *)

\* The lower-cased text of the story being scored
ScoredText == Lower(FullText(s_story))

KenyaTermOccurs == Matches(kenya_terms, ScoredText) # {}

EastAfricaTermOccurs == Matches(ea_terms, ScoredText) # {}

SourceAllowlisted ==
    s_story.source \in { "TechWeez", "CIO Africa", "Business Daily (Tech)", "CA Kenya (News)",
                         "KE-CIRT (News)", "ODPC Kenya", "Ministry of ICT Kenya" }

\* C6: _determine_region returns 'Kenya' if a Kenya term occurs in the lower-cased
\* text, otherwise 'East Africa' if an East-Africa term occurs, otherwise 'Kenya' if
\* the source is on the allowlist, otherwise 'Global': a function of the text and the
\* source name alone, whatever the story's category.
C6_RegionPrecedence ==
    s_pc \in { "region_score", "impact", "topic", "penalty", "returned" } =>
        s_region = IF KenyaTermOccurs THEN "Kenya"
                   ELSE IF EastAfricaTermOccurs THEN "East Africa"
                   ELSE IF SourceAllowlisted THEN "Kenya"
                   ELSE "Global"

\* A story from an allowlisted source whose text holds an East-Africa term and no
\* Kenya term was classified 'East Africa'
C6_Witness ==
    /\ s_pc = "returned"
    /\ ~KenyaTermOccurs
    /\ EastAfricaTermOccurs
    /\ SourceAllowlisted
    /\ s_region = "East Africa"

\* C7: the impact block adds exactly 15 to the score when at least one impact term
\* occurs in the text and nothing otherwise, however many impact terms occur.
C7_ImpactStep ==
    s_pc = "impact" =>
        s_score' - s_score = IF Matches(impact_keywords, ScoredText) # {} THEN 15 ELSE 0

C7_ImpactOnce == [][C7_ImpactStep]_vars

\* The impact block has run on a text in which several impact terms occur, and the
\* score is the region base plus 15
C7_Witness ==
    /\ s_pc = "topic"
    /\ Cardinality(Matches(impact_keywords, ScoredText)) >= 2
    /\ s_score = RegionBase(s_region) + 15

NoiseOccurs == Matches(noise_keywords, ScoredText) # {}

PoliticsOccurs == Matches(politics_keywords, ScoredText) # {}

TechContextOccurs == Matches(tech_context, ScoredText) # {}

\* C8: the penalty block subtracts 50 exactly when a noise term occurs and another 50
\* exactly when a politics term occurs without a technology-context term, each at
\* most once and independently: noise and politics without technology context lose
\* 100, politics with technology context loses nothing for politics.
C8_PenaltyStep ==
    s_pc = "penalty" =>
        LET lost == s_score - s_score' IN
        /\ lost = (IF NoiseOccurs THEN 50 ELSE 0)
                  + (IF PoliticsOccurs /\ ~TechContextOccurs THEN 50 ELSE 0)
        /\ (NoiseOccurs /\ PoliticsOccurs /\ ~TechContextOccurs) => lost = 100
        /\ (PoliticsOccurs /\ TechContextOccurs) => lost = IF NoiseOccurs THEN 50 ELSE 0

C8_PenaltiesIndependent == [][C8_PenaltyStep]_vars

\* _calculate_score has returned for a text with a noise term, a politics term and no
\* technology-context term, 100 below the region base and bonuses
C8_Witness ==
    /\ s_pc = "returned"
    /\ NoiseOccurs
    /\ PoliticsOccurs
    /\ ~TechContextOccurs
    /\ s_score = RegionBase(s_region)
                 + (IF Matches(impact_keywords, ScoredText) # {} THEN 15 ELSE 0)
                 + 5 * Cardinality(Matches(priority_topics, ScoredText)) - 100

\* The places of the text at which the term starts
Occurrences(text, term) ==
    { i \in 1..(Len(text) - Len(term) + 1) : SubSeq(text, i, i + Len(term) - 1) = term }

\* C9: the topic block adds 5 times the number of distinct priority-topic terms that
\* occur in the text, each once however often it occurs, without a cap.
C9_TopicStep ==
    s_pc = "topic" =>
        s_score' - s_score = 5 * Cardinality(Matches(priority_topics, ScoredText))

C9_TopicPerTerm == [][C9_TopicStep]_vars

\* The topic block has run on a text in which three priority topics occur, one of
\* them twice, and has added 15
C9_Witness ==
    /\ s_pc = "penalty"
    /\ Cardinality(Matches(priority_topics, ScoredText)) = 3
    /\ \E i \in 1..Len(priority_topics) :
        Cardinality(Occurrences(ScoredText, priority_topics[i])) >= 2
    /\ s_score = RegionBase(s_region)
                 + (IF Matches(impact_keywords, ScoredText) # {} THEN 15 ELSE 0) + 15

-----------------------------------------------------------------------------
(* Properties of the normalised summary *)

\* The marker appended to a summary that was cut
Ellipsis == "..."

EndsWith(text, suffix) ==
    /\ Len(text) >= Len(suffix)
    /\ SubSeq(text, Len(text) - Len(suffix) + 1, Len(text)) = suffix

C11_StoryRule(story) ==
    LET stripped == clean_html(story.summary)
        clean_summary == story.clean_summary
    IN  /\ Len(stripped) <= 400 => clean_summary = stripped
        /\ Len(stripped) > 400 =>
              /\ clean_summary = SubSeq(stripped, 1, 397) \o Ellipsis
              /\ EndsWith(clean_summary, Ellipsis)
        /\ Len(clean_summary) <= 400 + Len(Ellipsis)

\* C11: for every story kept by deduplication, clean_summary is the markup-stripped,
\* trimmed summary when that text has at most 400 characters, and otherwise its first
\* 397 characters followed by "..."; so clean_summary is never longer than 400 plus the
\* length of the marker, and a summary that was cut ends with the marker.
C11_SummaryBound ==
    \A i \in 1..Len(unique_stories) : C11_StoryRule(unique_stories[i])

\* Deduplication kept a story whose stripped text has exactly 400 characters (left as it
\* is, tags and outer blanks removed) and one whose stripped text is longer (cut)
C11_Witness ==
    /\ DedupOver
    /\ \E i \in 1..Len(unique_stories) :
          LET story == unique_stories[i] IN
          /\ Len(clean_html(story.summary)) = 400
          /\ story.clean_summary = clean_html(story.summary)
          /\ story.clean_summary # story.summary
    /\ \E i \in 1..Len(unique_stories) :
          LET story == unique_stories[i] IN
          /\ Len(clean_html(story.summary)) > 400
          /\ Len(story.clean_summary) = 400
          /\ EndsWith(story.clean_summary, Ellipsis)

-----------------------------------------------------------------------------
(* Properties of the enrichment *)

EnrichmentFields ==
    { "significance", "why_it_matters", "who_should_care", "action", "kenya_context" }

\* The story holds the five enrichment fields with their default values
HasDefaults(story) ==
    /\ EnrichmentFields \subseteq DOMAIN story
    /\ story.significance = "Medium"
    /\ story.why_it_matters = ""
    /\ story.who_should_care = ""
    /\ story.action = ""
    /\ story.kenya_context = ""

EmptyInsights(insights) ==
    /\ insights.executive_summary = ""
    /\ insights.signals = << >>

\* Number of selected stories the enrichment loop has gone through
EnrichedCount ==
    IF pc = "done" THEN Len(final_selection)
    ELSE IF pc = "enrich" THEN cursor - 1
    ELSE 0

\* C12: with the collaborator unavailable, process() goes on to its return, every selected
\* story gets the default enrichment values, the returned insights are an empty
\* executive_summary and an empty signals list, and no generation request is issued.
C12_DisabledDefaults ==
    ~enabled =>
        /\ requests = << >>
        /\ \A i \in 1..EnrichedCount : HasDefaults(final_selection[i])
        /\ pc = "enrich" => ENABLED (EnrichStory \/ BriefingInsight)
        /\ pc = "done" => EmptyInsights(report_insights)

\* process() returned two or more selected stories without a collaborator
C12_Witness ==
    /\ ~enabled
    /\ pc = "done"
    /\ Len(final_selection) >= 2
    /\ \A i \in 1..Len(final_selection) : HasDefaults(final_selection[i])

\* The positions of a run of process() that no exception has left
ProcessPositions == { "start", "dedup", "score", "select", "enrich", "done" }

\* The story without its enrichment fields
Base(story) == [k \in DOMAIN story \ EnrichmentFields |-> story[k]]

\* The k-th request is the one of the k-th selected story
OwnRequest(k) ==
    /\ k <= Len(requests)
    /\ requests[k].prompt.task = "analyze"
    /\ requests[k].prompt.title = final_selection[k].title
    /\ requests[k].prompt.summary = final_selection[k].clean_summary
    /\ requests[k].prompt.region = final_selection[k].region

C13_StateRule ==
    enabled =>
        /\ pc \in ProcessPositions
        /\ \A k \in 1..EnrichedCount :
              /\ OwnRequest(k)
              /\ requests[k].outcome.raises => HasDefaults(final_selection[k])
              /\ requests[k].outcome = StoryAnswer =>
                    /\ final_selection[k].significance = "High"
                    /\ final_selection[k].why_it_matters = "Banks are exposed"
        /\ pc = "enrich" => ENABLED (EnrichStory \/ BriefingInsight)
        /\ pc = "done" =>
              /\ Len(requests) = Len(final_selection) + 1
              /\ requests[Len(requests)].prompt.task = "briefing"
              /\ requests[Len(requests)].outcome.raises => EmptyInsights(report_insights)

\* A step of the enrichment keeps the selection: the same stories in the same order
C13_StepRule ==
    (enabled /\ pc = "enrich") =>
        /\ Len(final_selection') = Len(final_selection)
        /\ \A i \in 1..Len(final_selection) :
              Base(final_selection'[i]) = Base(final_selection[i])

\* C13: a collaborator call that raises, for a story or for the batch, never leaves
\* process(): the story (or the batch insight) keeps its default values, every later
\* selected story is still enriched from its own request, the batch request is still
\* issued, and the selection is returned with the same stories in the same order.
C13_FailureIsolated == []C13_StateRule /\ [][C13_StepRule]_vars

\* process() returned after the first story's call raised, the second story was enriched
\* from its own answer and the batch call raised
C13_Witness ==
    /\ enabled
    /\ pc = "done"
    /\ Len(final_selection) = 2
    /\ requests[1].outcome.raises
    /\ HasDefaults(final_selection[1])
    /\ requests[2].outcome = StoryAnswer
    /\ final_selection[2].significance = "High"
    /\ requests[3].outcome.raises
    /\ EmptyInsights(report_insights)

\* C14: after enrichment, kenya_context of a selected story is empty unless the story's
\* region is Kenya: a "Context:" line of the answer is taken only for a Kenya story and
\* is ignored for East Africa and Global stories.
C14_ContextOnlyKenya ==
    \A k \in 1..EnrichedCount :
        final_selection[k].region # "Kenya" => final_selection[k].kenya_context = ""

-----------------------------------------------------------------------------
(* Properties of the batch parser *)

\* The lines of the answer as the parser sees them: split at "\n", each one trimmed
AnswerLines ==
    LET lines == Split(Strip(i_outcome.text), "\n")
    IN  [j \in 1..Len(lines) |-> Strip(lines[j])]

Briefed == i_pc = "briefed" /\ ~i_outcome.raises

IsSummaryLabel(line) == StartsWith(line, "SUMMARY:")

IsSignalLine(line) == StartsWith(line, "SIGNAL")

\* The SIGNAL lines that hold a colon, in the order of the answer
SignalLines == SelectSeq(AnswerLines, LAMBDA l : IsSignalLine(l) /\ Contains(l, ":"))

\* The text after the first colon of the line, trimmed
AfterColon(line) == Strip(SubSeq(line, IndexOf(line, ":") + 1, Len(line)))

\* C15: the signals list holds at most three entries, in the order in which their SIGNAL
\* lines appear in the answer.
C15_AtMostThreeSignals ==
    Briefed =>
        /\ Len(i_result.signals) <= 3
        /\ Len(i_result.signals) <= Len(SignalLines)
        /\ \A k \in 1..Len(i_result.signals) :
              EndsWith(SignalLines[k], i_result.signals[k].description)

\* The title and description the claim gives a SIGNAL line
C16_Expected(line) ==
    LET text == AfterColon(line)
        at == IndexOf(text, " - ")
    IN  IF at = 0 THEN [title |-> "Trend", description |-> text]
        ELSE [title |-> SubSeq(text, 1, at - 1),
              description |-> SubSeq(text, at + Len(" - "), Len(text))]

\* C16: for each SIGNAL line, the (trimmed) text after the label's colon is split at its
\* first " - " only: what precedes is the title, all that follows, further " - "
\* included, is the description; a text without " - " gives the title "Trend" and the
\* whole text as description.
C16_SignalSplit ==
    Briefed =>
        /\ Len(i_result.signals) = Len(SignalLines)
        /\ \A k \in 1..Len(SignalLines) : i_result.signals[k] = C16_Expected(SignalLines[k])

\* The parser met a line with two " - " and a line with none
C16_Witness ==
    /\ Briefed
    /\ \E k \in 1..Len(i_result.signals) :
          /\ i_result.signals[k].title = "Cloud"
          /\ i_result.signals[k].description = "leaks - again"
    /\ \E k \in 1..Len(i_result.signals) :
          /\ i_result.signals[k].title = "Trend"
          /\ i_result.signals[k].description = "No separator here"
    /\ \E k \in 1..Len(i_result.signals) :
          /\ i_result.signals[k].title = "Trend"
          /\ i_result.signals[k].description = "- no title"

\* Line j is text, neither blank nor a label
IsTextLine(lines, j) ==
    /\ lines[j] # ""
    /\ ~IsSummaryLabel(lines[j])
    /\ ~IsSignalLine(lines[j])

\* The label line nearest before line j is a SUMMARY: label
InSummaryBlock(lines, j) ==
    \E k \in 1..(j - 1) :
        /\ IsSummaryLabel(lines[k])
        /\ \A m \in (k + 1)..(j - 1) : ~IsSignalLine(lines[m])

\* A SIGNAL line stands somewhere before line j
AfterSignal(lines, j) == \E k \in 1..(j - 1) : IsSignalLine(lines[k])

\* The lines at the chosen places, joined with single spaces
JoinedAt(lines, places) ==
    LET chosen == SelectSeq([j \in 1..Len(lines) |-> j], LAMBDA j : j \in places)
    IN  JoinNodes([k \in 1..Len(chosen) |-> lines[chosen[k]]], " ", 1)

\* C17 as stated: the summary is the text lines that follow a SUMMARY: label up to the
\* next label line, joined with single spaces, and no line that comes after a SIGNAL line
\* is ever part of it; an answer without a SUMMARY: label gives the empty summary.
C17_SummaryBlock ==
    Briefed =>
        i_result.executive_summary =
            JoinedAt(AnswerLines,
                     { j \in 1..Len(AnswerLines) :
                         /\ IsTextLine(AnswerLines, j)
                         /\ InSummaryBlock(AnswerLines, j)
                         /\ ~AfterSignal(AnswerLines, j) })

\* C17, amended: the summary is the text lines whose nearest label line before them is a
\* SUMMARY: label, joined with single spaces.  Lines before any SUMMARY: label and lines
\* between a SIGNAL line and the next SUMMARY: label are left out, the text on a SUMMARY:
\* line itself is left out, and an answer without a SUMMARY: label gives the empty summary.
C17_SummaryBlockAmended ==
    Briefed =>
        /\ i_result.executive_summary =
              JoinedAt(AnswerLines,
                       { j \in 1..Len(AnswerLines) :
                           IsTextLine(AnswerLines, j) /\ InSummaryBlock(AnswerLines, j) })
        /\ (\A j \in 1..Len(AnswerLines) : ~IsSummaryLabel(AnswerLines[j]))
              => i_result.executive_summary = ""

\* A SIGNAL line, then a SUMMARY: label and two lines of text, which make the summary
C17_Witness ==
    /\ Briefed
    /\ Len(AnswerLines) = 4
    /\ IsSignalLine(AnswerLines[1])
    /\ IsSummaryLabel(AnswerLines[2])
    /\ i_result.executive_summary = "A quiet week Second line"

-----------------------------------------------------------------------------
(* Properties of process() on foreign labels and on empty batches *)

\* The label of the story is one of the known categories
HasKnownCategory(story) ==
    /\ "category" \in DOMAIN story
    /\ story.category \in KnownCategories

\* C18: a story whose category label is not a known category ("unknown", or no label at
\* all) is not rejected, and leaves process() with the default category as its label,
\* so that every returned story carries a known category.
C18_UnknownRemapped ==
    pc = "done" =>
        /\ \A i \in 1..Len(processed_stories) :
              (Len(processed_stories) = 1 /\ ~HasKnownCategory(processed_stories[i]))
                  => Len(final_selection) = 1
        /\ \A k \in 1..Len(final_selection) : HasKnownCategory(final_selection[k])

\* The batch handed to process() is None or empty
EmptyInput == raw_input.none \/ raw_input.stories = << >>

\* C19: for an empty or None batch, process() returns an empty selection and empty
\* insights, whether or not the collaborator is enabled and whatever it answers.
C19_EmptyBatch ==
    (pc = "done" /\ EmptyInput) =>
        /\ final_selection = << >>
        /\ EmptyInsights(report_insights)

-----------------------------------------------------------------------------
(* Properties of the order of the generation requests *)

\* The titles of the stories, as the batch prompt lists them
TitlesListed(stories) == [i \in 1..Len(stories) |-> "- " \o stories[i].title]

C20_StateRule ==
    enabled =>
        /\ pc \notin { "enrich", "done" } => requests = << >>
        /\ pc = "enrich" => Len(requests) = cursor - 1
        /\ \A k \in 1..EnrichedCount : OwnRequest(k)
        /\ \A k \in 1..Len(requests) :
              requests[k].prompt.task = "analyze" => k <= Len(final_selection)
        /\ pc = "done" =>
              /\ Len(requests) = Len(final_selection) + 1
              /\ requests[Len(requests)].prompt.task = "briefing"
              /\ requests[Len(requests)].prompt.context =
                    IF final_selection = << >> THEN << >>
                    ELSE << "Category: Top Stories" >> \o TitlesListed(final_selection)

\* Requests are issued one per step, while the selection is complete, and none is
\* taken back or issued again
C20_StepRule ==
    \/ requests' = requests
    \/ /\ pc = "enrich"
       /\ Len(requests') = Len(requests) + 1
       /\ SubSeq(requests', 1, Len(requests)) = requests
       /\ LinkSeq(final_selection') = LinkSeq(final_selection)

\* C20: with the collaborator enabled, a run of process() issues its requests one after
\* the other and only once the selection is complete: exactly one per selected story, in
\* selection order, then exactly one batch request; none for a story that was
\* deduplicated away, dropped by the noise floor or not selected, and none again after
\* a failure.
C20_RequestOrder == []C20_StateRule /\ [][C20_StepRule]_vars

\* process() returned eight stories of a batch that lost stories to deduplication, to the
\* noise floor and to the selection, after nine requests of which one raised
C20_Witness ==
    /\ enabled
    /\ pc = "done"
    /\ Len(unique_stories) < Len(raw_stories)
    /\ Len(processed_stories) < Len(unique_stories)
    /\ Len(final_selection) < Len(processed_stories)
    /\ Len(requests) = Len(final_selection) + 1
    /\ \E k \in 1..Len(requests) : requests[k].outcome.raises

-----------------------------------------------------------------------------
(* Properties of the significance level *)

\* The levels the prompt of analyze_story asks for
SignificanceLevels == { "Low", "Medium", "High", "Critical" }

\* The selected story as process() leaves it once the analysis has come back
EnrichedStory == Enriched(InsightStory, i_result)

\* C21: after enrichment, the significance of a selected story is one of Low, Medium,
\* High or Critical, whatever the collaborator answered, also when the "Significance:"
\* line of the answer carries any other text.
C21_SignificanceLevel ==
    i_pc = "analyzed" => EnrichedStory.significance \in SignificanceLevels

-----------------------------------------------------------------------------
(* Properties of main() *)

\* The selection inside the value send_briefing was called with
SelectionSent(call) == call.stories[1]

\* main() is past the call of process()
Processed == m_pc \in { "processed", "returned", "exit" } /\ pc = "done"

\* C22: in main(), when processing leaves no selected story (every story was dropped by
\* the noise floor), the run ends with the warning "No stories remained after processing"
\* and send_briefing is never called; send_briefing is called only with a selection
\* that is not empty.
C22_NoSendWhenEmpty ==
    /\ (Processed /\ final_selection = << >>) =>
          /\ sent = << >>
          /\ m_pc # "exit"
          /\ m_pc = "returned" => m_log = << WarnNoneRemained >>
    /\ \A k \in 1..Len(sent) : SelectionSent(sent[k]) # << >>

=============================================================================
